---- MODULE Spec2Model ----
(***************************************************************************)
(* Model of the SPI flash programming engine of the BPIO2 python tools:    *)
(* python/spi_flash_write.py (write_spi_flash, erase_flash, write_flash)   *)
(* and python/spi_flash_read.py (read_spi_flash), driven against a         *)
(* transport (BPIOSPI.configure / BPIOSPI.transfer) and an in-memory       *)
(* SPI-NOR device.  One action per spi.transfer / spi.configure call.      *)
(***************************************************************************)
EXTENDS Integers, Sequences, FiniteSets, TLC

(***************************************************************************)
(* Bounds of the exploration.                                              *)
(***************************************************************************)
MaxSrcPages == 3      \* the flash holds MaxSrcPages pages; input files of up to one page more
MaxReadChunks == 8    \* read sessions of up to MaxReadChunks whole chunks
MaxFaults == 1        \* faults of the environment (failed transfers, flipped bytes) in one session
MaxBusyPolls == 1     \* status polls answered "busy" in one session

(***************************************************************************)
(* Program constants.                                                      *)
(***************************************************************************)
page_size == 256
verify_chunk == 512
WritePagesPerProgress == 64
ReadChunksPerProgress == 256
VerifyProgressBytes == 64 * 1024

OP_READ == 3          \* 0x03
OP_PP == 2            \* 0x02
OP_WREN == 6          \* 0x06
OP_CE == 199          \* 0xC7
OP_RDSR == 5          \* 0x05

Min(a, b) == IF a < b THEN a ELSE b
SetMax(S) == CHOOSE x \in S : \A y \in S : y <= x

(***************************************************************************)
(* Byte strings are kept lazily: a slice of the input file, a slice of the *)
(* device memory as it was when read, a status register value, or None.    *)
(***************************************************************************)
\* byte i (0-based) of the input file with content pattern pat
SrcByte(pat, i) ==
    IF pat = "aabb" THEN (IF i % 2 = 0 THEN 170 ELSE 187)
    ELSE (i + (i \div 256)) % 256

\* content of a device that was programmed by somebody else before
OldByte(a) == (3 * a + 1) % 256

Flip(b) == IF b % 2 = 0 THEN b + 1 ELSE b - 1

None == [kind |-> "none", len |-> 0]
FileBytes(pat, off, len) == [kind |-> "file", pat |-> pat, off |-> off, len |-> len]
FlashBytes(m, c, addr, len) ==
    [kind |-> "flash", mem |-> m, corrupt |-> c, addr |-> addr, len |-> len]
StatusBytes(val, len) == [kind |-> "status", val |-> val, len |-> len]

\* the device memory: erased (0xFF) or old content, overlaid by the page
\* programs accepted since, the latest one winning
MemByte(m, c, a) ==
    LET cov == {i \in 1..Len(m.progs) :
                  m.progs[i].addr <= a /\ a < m.progs[i].addr + m.progs[i].data.len}
        base == IF cov = {}
                THEN (IF m.erased THEN 255 ELSE OldByte(a))
                ELSE LET p == m.progs[SetMax(cov)]
                     IN  SrcByte(p.data.pat, p.data.off + (a - p.addr))
    IN  IF a \in c THEN Flip(base) ELSE base

\* byte k (0-based) of a byte string
At(b, k) ==
    CASE b.kind = "file" -> SrcByte(b.pat, b.off + k)
      [] b.kind = "flash" -> MemByte(b.mem, b.corrupt, b.addr + k)
      [] b.kind = "status" -> b.val
      [] OTHER -> 0

\* python truthiness of a transfer result: None and b'' are falsy
Truthy(b) == b.kind # "none" /\ b.len > 0

\* python ==  between a transfer result and bytes read from the file
BytesEq(x, y) ==
    /\ x.kind # "none"
    /\ y.kind # "none"
    /\ x.len = y.len
    /\ \A k \in 0..(x.len - 1) : At(x, k) = At(y, k)

\* [op, (address >> 16) & 0xFF, (address >> 8) & 0xFF, address & 0xFF]
AddrCmd(op, a) == <<op, (a \div 65536) % 256, (a \div 256) % 256, a % 256>>

ProgramCmd_NoMiddleByte(a) == <<OP_PP, (a \div 65536) % 256, 0, a % 256>>

\* the commands of write_flash (page program, verification read) and of
\* read_spi_flash (read)
ProgramCmd(a) == AddrCmd(OP_PP, a)
VerifyCmd(a) == AddrCmd(OP_READ, a)
ReadCmd(a) == AddrCmd(OP_READ, a)

\* the address a device decodes from the three address bytes of a command
DecodeAddr(cmd) == cmd[2] * 65536 + cmd[3] * 256 + cmd[4]

VARIABLES
    prog,          \* which tool runs: "write" (spi_flash_write) or "read" (spi_flash_read)
    pc,            \* position of the running tool
    filename,      \* the input file: [exists, size, pat]
    flash_size, chunk_size, erase_chip, verify,   \* arguments of the session
    address, page_count, chunk_count, fpos, page_data,  \* locals of the loops
    ret,           \* result of the session: "none" (running), "True", "False",
                   \* "raised" (an exception left it)
    msg,           \* the error the session printed: [kind, addr]
    xfers,         \* the spi.transfer calls of the session, in order
    cfg_log,       \* results of the spi.configure calls, in order
    sink,          \* chunks written to the output file
    progress,      \* show_progress calls: [cur, tot, op]
    handles,       \* the files the session holds open
    wip, wel,      \* device: write-in-progress bit, write-enable latch
    mem, corrupt,  \* device: memory content, addresses of flipped bytes
    faults,        \* faults of the environment so far
    polls          \* status polls answered busy so far

argVars == <<prog, filename, flash_size, chunk_size, erase_chip, verify>>
locVars == <<address, page_count, chunk_count, fpos, page_data>>
outVars == <<ret, msg, sink, progress, handles>>
devVars == <<wip, wel, mem, corrupt>>
vars == <<argVars, pc, locVars, outVars, xfers, cfg_log, devVars, faults, polls>>

NoMsg == [kind |-> "none", addr |-> 0]

\* input file sizes: empty, one byte, whole pages and pages plus an 88-byte
\* tail, up to one page more than the flash holds
SrcLens == {n \in 0..((MaxSrcPages + 1) * page_size) : n = 1 \/ n % page_size \in {0, 88}}
FlashSizes == {MaxSrcPages * page_size}
\* input file contents: the address-dependent pattern for every size, the
\* two-byte pattern for the 600-byte file
SrcFiles ==
    {[exists |-> TRUE, size |-> n, pat |-> "ramp"] : n \in SrcLens}
    \cup {[exists |-> TRUE, size |-> 600, pat |-> "aabb"]}
    \cup {[exists |-> FALSE, size |-> 0, pat |-> "ramp"]}
ChunkSizes == {256, 512}
ReadSizes == {k * c + r : k \in 1..MaxReadChunks, c \in ChunkSizes, r \in {0, 88}}

DirtyMem == [erased |-> FALSE, progs |-> <<>>]

InitCommon ==
    /\ pc = "start"
    /\ address = 0 /\ page_count = 0 /\ chunk_count = 0 /\ fpos = 0
    /\ page_data = None
    /\ ret = "none" /\ msg = NoMsg
    /\ xfers = <<>> /\ cfg_log = <<>> /\ sink = <<>> /\ progress = <<>>
    /\ handles = {}
    /\ wip = FALSE /\ wel = FALSE /\ mem = DirtyMem /\ corrupt = {}
    /\ polls = 0

InitWrite ==
    /\ prog = "write"
    /\ filename \in SrcFiles
    /\ flash_size \in FlashSizes
    /\ chunk_size = 0
    /\ erase_chip \in BOOLEAN
    /\ verify \in BOOLEAN

InitRead ==
    /\ prog = "read"
    /\ filename = [exists |-> FALSE, size |-> 0, pat |-> "ramp"]
    /\ flash_size \in ReadSizes
    /\ chunk_size \in ChunkSizes
    /\ erase_chip = FALSE
    /\ verify = FALSE

Init ==
    /\ InitCommon
    /\ faults = 0
    /\ (InitWrite \/ InitRead)

(***************************************************************************)
(* The transport and the device.                                           *)
(***************************************************************************)
\* outcomes of one spi.transfer that requests n bytes: delivered and answered,
\* not delivered and no answer (None), an answer of the wrong length, or not
\* delivered and an exception raised (the serial link broke)
Outcomes(n) ==
    IF faults < MaxFaults
    THEN (IF n > 0 THEN {"ok", "absent", "short", "raise"} ELSE {"ok", "absent", "raise"})
    ELSE {"ok"}

\* what the device does with a delivered command
DevWip(cmd, o) ==
    IF o = "ok" /\ cmd[1] \in {OP_PP, OP_CE} /\ wel /\ ~wip THEN TRUE ELSE wip
DevWel(cmd, o) ==
    IF o = "ok" /\ cmd[1] = OP_WREN /\ ~wip THEN TRUE ELSE wel
DevMem(cmd, data, o) ==
    IF o = "ok" /\ wel /\ ~wip
    THEN CASE cmd[1] = OP_CE -> [erased |-> TRUE, progs |-> <<>>]
           [] cmd[1] = OP_PP ->
                [mem EXCEPT !.progs = Append(@, [addr |-> DecodeAddr(cmd), data |-> data])]
           [] OTHER -> mem
    ELSE mem
DevCorrupt(cmd, o) ==
    IF o = "ok" /\ wel /\ ~wip /\ cmd[1] = OP_CE THEN {} ELSE corrupt

\* the bytes spi.transfer(write_data=cmd, read_bytes=n) returns
Response(cmd, n, o) ==
    CASE o \in {"absent", "raise"} -> None
      [] n <= 0 -> None
      [] cmd[1] = OP_RDSR ->
           StatusBytes((IF wip THEN 1 ELSE 0) + (IF wel THEN 2 ELSE 0),
                       IF o = "short" THEN n + 1 ELSE n)
      [] cmd[1] = OP_READ ->
           FlashBytes(mem, corrupt, DecodeAddr(cmd), IF o = "short" THEN n - 1 ELSE n)
      [] OTHER -> None

\* one spi.transfer call: logs it, lets the device act on it
Transfer(cmd, data, n, o, stage) ==
    /\ xfers' = Append(xfers, [cmd |-> cmd, data |-> data, rd |-> n, res |-> o,
                               resp |-> Response(cmd, n, o),
                               stage |-> stage, busy |-> wip])
    /\ wip' = DevWip(cmd, o)
    /\ wel' = DevWel(cmd, o)
    /\ mem' = DevMem(cmd, data, o)
    /\ corrupt' = DevCorrupt(cmd, o)
    /\ faults' = IF o = "ok" THEN faults ELSE faults + 1

\* the device finishes the erase or program in progress
DeviceComplete ==
    /\ ret = "none"
    /\ wip
    /\ wip' = FALSE
    /\ wel' = FALSE
    /\ UNCHANGED <<argVars, pc, locVars, outVars, xfers, cfg_log, mem, corrupt, faults, polls>>

(***************************************************************************)
(* spi_flash_write.py                                                      *)
(***************************************************************************)
file_size == filename.size
total_pages == (file_size + page_size - 1) \div page_size

Return(r, m) ==
    /\ ret' = r
    /\ msg' = m
    /\ pc' = "done"

SizeExceeded_Reversed(size, capacity) == size < capacity

\* write_spi_flash: the capacity check
SizeExceeded(size, capacity) == size > capacity

\* write_spi_flash up to the construction of the SPI interface
WriteStart ==
    /\ prog = "write" /\ pc = "start"
    /\ IF ~filename.exists
       THEN Return("False", [kind |-> "FileNotFound", addr |-> 0])
       ELSE IF SizeExceeded(file_size, flash_size)
            THEN Return("False", [kind |-> "SizeExceeded", addr |-> 0])
            ELSE pc' = "configure" /\ UNCHANGED <<ret, msg>>
    /\ UNCHANGED <<argVars, locVars, sink, progress, handles, xfers, cfg_log, devVars,
                   faults, polls>>

Released_Leaked(h) == handles

\* the end of a "with open(...) as f" block, by fall-through, return or
\* exception: f is closed
Released(h) == handles \ {h}

\* an exception raised by spi.transfer leaves the session; the with block
\* around the call, if any, closes its file
Raised(h) ==
    /\ Return("raised", [kind |-> "Exception", addr |-> address])
    /\ handles' = Released(h)

WriteConfigured_Ignored(ok) == TRUE

\* write_spi_flash: the test of spi.configure's result
WriteConfigured(ok) == ok

\* write_spi_flash: if erase_chip
EraseRequested == erase_chip

EraseEntry_NoWriteEnable == "erase_ce"

\* erase_flash: its first statement that talks to the device is the write enable
EraseEntry == "erase_wren"

\* write_spi_flash: spi.configure(...) and the branch on its result; without
\* chip erase write_flash is entered and opens the input file
WriteConfigure ==
    /\ prog = "write" /\ pc = "configure"
    /\ \E ok \in BOOLEAN :
         /\ cfg_log' = Append(cfg_log, ok)
         /\ IF WriteConfigured(ok)
            THEN /\ pc' = IF EraseRequested THEN EraseEntry ELSE "w_head"
                 /\ handles' = IF EraseRequested THEN handles ELSE handles \cup {"write_f"}
                 /\ UNCHANGED <<ret, msg>>
            ELSE /\ Return("False", [kind |-> "ConfigurationFailed", addr |-> 0])
                 /\ UNCHANGED handles
    /\ UNCHANGED <<argVars, locVars, sink, progress, xfers, devVars, faults, polls>>

\* erase_flash: spi.transfer(write_data=[0x06])
EraseWriteEnable ==
    /\ pc = "erase_wren"
    /\ \E o \in Outcomes(0) :
         /\ Transfer(<<OP_WREN>>, None, 0, o, "erase")
         /\ IF o = "raise"
            THEN Raised("none")
            ELSE pc' = "erase_ce" /\ UNCHANGED <<ret, msg, handles>>
    /\ UNCHANGED <<argVars, locVars, sink, progress, cfg_log, polls>>

\* erase_flash: spi.transfer(write_data=[0xC7])
EraseChip ==
    /\ pc = "erase_ce"
    /\ \E o \in Outcomes(0) :
         /\ Transfer(<<OP_CE>>, None, 0, o, "erase")
         /\ IF o = "raise"
            THEN Raised("none")
            ELSE pc' = "erase_poll" /\ UNCHANGED <<ret, msg, handles>>
    /\ UNCHANGED <<argVars, locVars, sink, progress, cfg_log, polls>>

StatusReady_AnyAnswer(status_data) ==
    Truthy(status_data) /\ status_data.len = 1

\* the test both busy-wait loops apply to a status answer
StatusReady(status_data) ==
    Truthy(status_data) /\ status_data.len = 1 /\ At(status_data, 0) % 2 = 0

\* erase_flash: one round of the wait loop; leaving it returns True to
\* write_spi_flash, which enters write_flash, which opens the input file
EraseStatus ==
    /\ pc = "erase_poll"
    /\ wip => polls < MaxBusyPolls
    /\ \E o \in Outcomes(1) :
         /\ Transfer(<<OP_RDSR>>, None, 1, o, "erase")
         /\ IF o = "raise"
            THEN Raised("none")
            ELSE IF StatusReady(Response(<<OP_RDSR>>, 1, o))
                 THEN /\ pc' = "w_head"
                      /\ handles' = handles \cup {"write_f"}
                      /\ UNCHANGED <<ret, msg>>
                 ELSE UNCHANGED <<pc, ret, msg, handles>>
    /\ polls' = IF wip THEN polls + 1 ELSE polls
    /\ UNCHANGED <<argVars, locVars, sink, progress, cfg_log>>

\* f.read(n) at file position fpos
FileRead(n) == FileBytes(filename.pat, fpos, Min(n, file_size - fpos))

\* write_flash: loop test, f.read(page_size), spi.transfer(write_data=[0x06])
WriteEnable ==
    /\ pc = "w_head"
    /\ address < file_size
    /\ FileRead(page_size).len > 0
    /\ page_data' = FileRead(page_size)
    /\ fpos' = fpos + FileRead(page_size).len
    /\ \E o \in Outcomes(0) :
         /\ Transfer(<<OP_WREN>>, None, 0, o, "write")
         /\ IF o = "raise"
            THEN Raised("write_f")
            ELSE pc' = "w_prog" /\ UNCHANGED <<ret, msg, handles>>
    /\ UNCHANGED <<argVars, address, page_count, chunk_count, sink, progress, cfg_log, polls>>

\* write_flash: spi.transfer(write_data=[0x02, a2, a1, a0] + page_data)
PageProgram ==
    /\ pc = "w_prog"
    /\ \E o \in Outcomes(0) :
         /\ Transfer(ProgramCmd(address), page_data, 0, o, "write")
         /\ IF o = "raise"
            THEN Raised("write_f")
            ELSE pc' = "w_poll" /\ UNCHANGED <<ret, msg, handles>>
    /\ UNCHANGED <<argVars, locVars, sink, progress, cfg_log, polls>>

NextWriteAddress_Reset(a) == page_data.len

\* write_flash: address += len(page_data)
NextWriteAddress(a) == a + page_data.len

WriteProgressDue(n) ==
    n = 1 \/ n % WritePagesPerProgress = 0 \/ n = total_pages

\* write_flash: one round of the wait loop and, when it breaks, the rest of
\* the page's iteration
WriteStatus ==
    /\ pc = "w_poll"
    /\ wip => polls < MaxBusyPolls
    /\ \E o \in Outcomes(1) :
         /\ Transfer(<<OP_RDSR>>, None, 1, o, "write")
         /\ IF o = "raise"
            THEN /\ Raised("write_f")
                 /\ UNCHANGED <<address, page_count, progress>>
            ELSE IF StatusReady(Response(<<OP_RDSR>>, 1, o))
                 THEN /\ address' = NextWriteAddress(address)
                      /\ page_count' = page_count + 1
                      /\ progress' = IF WriteProgressDue(page_count + 1)
                                     THEN Append(progress, [cur |-> NextWriteAddress(address),
                                                            tot |-> file_size, op |-> "Writing"])
                                     ELSE progress
                      /\ pc' = "w_head"
                      /\ UNCHANGED <<ret, msg, handles>>
                 ELSE UNCHANGED <<address, page_count, progress, pc, ret, msg, handles>>
    /\ polls' = IF wip THEN polls + 1 ELSE polls
    /\ UNCHANGED <<argVars, chunk_count, fpos, page_data, sink, cfg_log>>

VerifyRequested_Always == TRUE

\* write_flash: if verify
VerifyRequested == verify

ReopenedPosition_Stale == fpos

\* write_flash: the file position after "with open(filename, 'rb') as f"
ReopenedPosition == 0

\* write_flash: the write loop ends and its file is closed; the file is
\* reopened for verification, or True is returned
WriteExit ==
    /\ pc = "w_head"
    /\ ~(address < file_size /\ FileRead(page_size).len > 0)
    /\ IF VerifyRequested
       THEN /\ pc' = "v_head"
            /\ address' = 0
            /\ fpos' = ReopenedPosition
            /\ handles' = Released("write_f") \cup {"verify_f"}
            /\ UNCHANGED <<ret, msg>>
       ELSE /\ Return("True", NoMsg)
            /\ handles' = Released("write_f")
            /\ UNCHANGED <<address, fpos>>
    /\ UNCHANGED <<argVars, page_count, chunk_count, page_data, sink, progress,
                   xfers, cfg_log, devVars, faults, polls>>

Mismatch_LengthOnly(actual_data, expected_data) ==
    actual_data.kind = "none" \/ actual_data.len # expected_data.len

\* write_flash: actual_data != expected_data
Mismatch(actual_data, expected_data) == ~BytesEq(actual_data, expected_data)

VerifyFailedResult_True == "True"

\* write_flash: the value returned after "Verification failed at address"
VerifyFailedResult == "False"

VerifyProgressDue(a) == a % VerifyProgressBytes = 0 \/ a >= file_size

\* write_flash: one iteration of the verification loop
VerifyRead ==
    /\ pc = "v_head"
    /\ address < file_size
    /\ FileRead(verify_chunk).len > 0
    /\ LET expected_data == FileRead(verify_chunk)
           cmd == VerifyCmd(address)
       IN  \E o \in Outcomes(expected_data.len) :
             /\ Transfer(cmd, None, expected_data.len, o, "verify")
             /\ fpos' = fpos + expected_data.len
             /\ IF o = "raise"
                THEN /\ Raised("verify_f")
                     /\ UNCHANGED <<address, progress>>
                ELSE IF Mismatch(Response(cmd, expected_data.len, o), expected_data)
                     THEN /\ Return(VerifyFailedResult,
                                    [kind |-> "VerificationMismatch", addr |-> address])
                          /\ handles' = Released("verify_f")
                          /\ UNCHANGED <<address, progress>>
                     ELSE /\ address' = address + expected_data.len
                          /\ progress' = IF VerifyProgressDue(address + expected_data.len)
                                         THEN Append(progress,
                                                     [cur |-> address + expected_data.len,
                                                      tot |-> file_size, op |-> "Verifying"])
                                         ELSE progress
                          /\ UNCHANGED <<pc, ret, msg, handles>>
    /\ UNCHANGED <<argVars, page_count, chunk_count, page_data, sink, cfg_log, polls>>

\* write_flash: the verification loop ends, its file is closed, True is
\* returned
VerifyExit ==
    /\ pc = "v_head"
    /\ ~(address < file_size /\ FileRead(verify_chunk).len > 0)
    /\ Return("True", NoMsg)
    /\ handles' = Released("verify_f")
    /\ UNCHANGED <<argVars, locVars, sink, progress, xfers, cfg_log, devVars, faults, polls>>

\* main of both tools: return 0 if success else 1, and 1 after an exception
ExitCode == IF ret = "True" THEN 0 ELSE 1

(***************************************************************************)
(* spi_flash_read.py                                                       *)
(***************************************************************************)
total_chunks == flash_size \div chunk_size

\* read_spi_flash: the test of spi.configure's result
ReadConfigured(ok) == ok

\* read_spi_flash: total_chunks = flash_size // chunk_size is computed
\* unless the divisor is 0, where python raises ZeroDivisionError
TotalChunksDefined == chunk_size # 0

\* read_spi_flash: spi.configure(...) and the branch on its result; the
\* output file is opened and total_chunks computed: the division by a chunk
\* size of 0 raises inside the with block, which closes the file
ReadConfigure ==
    /\ prog = "read" /\ pc = "start"
    /\ \E ok \in BOOLEAN :
         /\ cfg_log' = Append(cfg_log, ok)
         /\ IF ReadConfigured(ok)
            THEN IF TotalChunksDefined
                 THEN /\ pc' = "r_head"
                      /\ handles' = handles \cup {"read_f"}
                      /\ UNCHANGED <<ret, msg>>
                 ELSE /\ Return("raised", [kind |-> "ZeroDivisionError", addr |-> 0])
                      /\ UNCHANGED handles
            ELSE /\ Return("False", [kind |-> "ConfigurationFailed", addr |-> 0])
                 /\ UNCHANGED handles
    /\ UNCHANGED <<argVars, locVars, sink, progress, xfers, devVars, faults, polls>>

ReadOk_NoLengthCheck(data) == Truthy(data)

\* read_spi_flash: the test of a chunk's transfer result
ReadOk(data) == Truthy(data) /\ data.len = chunk_size

NextReadAddress_OffByOne(a) == a + chunk_size - 1

\* read_spi_flash: address += chunk_size
NextReadAddress(a) == a + chunk_size

ReadProgressDue(n) ==
    n = 1 \/ n % ReadChunksPerProgress = 0 \/ n = total_chunks

\* read_spi_flash: one iteration of the read loop
ReadChunk ==
    /\ pc = "r_head"
    /\ address < flash_size
    /\ LET cmd == ReadCmd(address)
       IN  \E o \in Outcomes(chunk_size) :
             /\ Transfer(cmd, None, chunk_size, o, "read")
             /\ LET data == Response(cmd, chunk_size, o)
                IN  IF o = "raise"
                    THEN /\ Raised("read_f")
                         /\ UNCHANGED <<sink, address, chunk_count, progress>>
                    ELSE IF ReadOk(data)
                         THEN /\ sink' = Append(sink, data)
                              /\ address' = NextReadAddress(address)
                              /\ chunk_count' = chunk_count + 1
                              /\ progress' = IF ReadProgressDue(chunk_count + 1)
                                             THEN Append(progress,
                                                         [cur |-> NextReadAddress(address),
                                                          tot |-> flash_size, op |-> "Reading"])
                                             ELSE progress
                              /\ UNCHANGED <<pc, ret, msg, handles>>
                         ELSE /\ Return("False", [kind |-> "TransportError", addr |-> address])
                              /\ handles' = Released("read_f")
                              /\ UNCHANGED <<sink, address, chunk_count, progress>>
    /\ UNCHANGED <<argVars, page_count, fpos, page_data, cfg_log, polls>>

\* read_spi_flash: the loop ends, the output file is closed, True is returned
ReadExit ==
    /\ pc = "r_head"
    /\ ~(address < flash_size)
    /\ Return("True", NoMsg)
    /\ handles' = Released("read_f")
    /\ UNCHANGED <<argVars, locVars, sink, progress, xfers, cfg_log, devVars, faults, polls>>

(***************************************************************************)
(* Environment: a byte of the flash is flipped between writing and         *)
(* verification.                                                           *)
(***************************************************************************)
CorruptAddrs == {a \in {0, 511, 512, file_size - 1} : 0 <= a /\ a < file_size}

Corrupt ==
    /\ pc = "v_head" /\ address = 0 /\ corrupt = {}
    /\ faults < MaxFaults
    /\ faults' = faults + 1
    /\ \E a \in CorruptAddrs : corrupt' = {a}
    /\ UNCHANGED <<argVars, pc, locVars, outVars, xfers, cfg_log, wip, wel, mem, polls>>

(***************************************************************************)
(* A second run of the tools on the same device: after a write session     *)
(* that returned True, spi_flash_read reads back as many bytes as the      *)
(* input file holds.                                                       *)
(***************************************************************************)
ReadBackChunks(n) == {c \in {8, 256, 512, n} : c > 0 /\ c <= 4096 /\ n % c = 0}

ReadBack ==
    /\ prog = "write" /\ pc = "done" /\ ret = "True"
    /\ file_size > 0
    /\ prog' = "read"
    /\ pc' = "start"
    /\ flash_size' = file_size
    /\ chunk_size' \in ReadBackChunks(file_size)
    /\ erase_chip' = FALSE /\ verify' = FALSE
    /\ address' = 0 /\ page_count' = 0 /\ chunk_count' = 0 /\ fpos' = 0
    /\ page_data' = None
    /\ ret' = "none" /\ msg' = NoMsg
    /\ xfers' = <<>> /\ cfg_log' = <<>> /\ sink' = <<>> /\ progress' = <<>>
    /\ handles' = {}
    /\ UNCHANGED <<filename, devVars, faults, polls>>

Next ==
    \/ WriteStart \/ WriteConfigure
    \/ EraseWriteEnable \/ EraseChip \/ EraseStatus
    \/ WriteEnable \/ PageProgram \/ WriteStatus \/ WriteExit
    \/ VerifyRead \/ VerifyExit
    \/ ReadConfigure \/ ReadChunk \/ ReadExit
    \/ DeviceComplete \/ Corrupt

Spec == Init /\ [][Next]_vars

\* a write session on a transport that never fails, followed by a read-back
InitRoundTrip ==
    /\ InitCommon
    /\ faults = MaxFaults
    /\ InitWrite

NextRoundTrip ==
    \/ WriteStart \/ WriteConfigure
    \/ EraseWriteEnable \/ EraseChip \/ EraseStatus
    \/ WriteEnable \/ PageProgram \/ WriteStatus \/ WriteExit
    \/ VerifyRead \/ VerifyExit
    \/ ReadBack
    \/ ReadConfigure \/ ReadChunk \/ ReadExit
    \/ DeviceComplete

SpecRoundTrip == InitRoundTrip /\ [][NextRoundTrip]_vars

\* a write session alone, with the progress the program and the device make:
\* the interpreter executes the next statement of the session whenever there
\* is one, and the device finishes an erase or program it has started.  The
\* sessions that verify are taken on the empty and the one-byte file: the
\* verification loop has no wait
InitLive ==
    /\ InitCommon
    /\ faults = 0
    /\ InitWrite
    /\ verify => file_size <= 1

WriteStep ==
    \/ WriteStart \/ WriteConfigure
    \/ EraseWriteEnable \/ EraseChip \/ EraseStatus
    \/ WriteEnable \/ PageProgram \/ WriteStatus \/ WriteExit
    \/ VerifyRead \/ VerifyExit

NextWrite == WriteStep \/ DeviceComplete \/ Corrupt

SpecLive ==
    InitLive /\ [][NextWrite]_vars /\ WF_vars(WriteStep) /\ WF_vars(DeviceComplete)

\* the write sessions that verify what they wrote
InitVerify ==
    /\ InitCommon
    /\ faults = 0
    /\ InitWrite
    /\ verify

SpecVerify == InitVerify /\ [][NextWrite]_vars

(***************************************************************************)
(* main of both tools: the arguments are parsed, the read tool validates   *)
(* them, the client is opened and the engine is called.  The transport of  *)
(* these sessions never fails.                                             *)
(***************************************************************************)
CliWriteSizes == {-256, 0} \cup FlashSizes
CliReadSizes == {-256, 0, 256, 344}
CliChunks == {-256, 0, 256, 4096, 4097}

InitCli ==
    /\ pc = "main"
    /\ address = 0 /\ page_count = 0 /\ chunk_count = 0 /\ fpos = 0
    /\ page_data = None
    /\ ret = "none" /\ msg = NoMsg
    /\ xfers = <<>> /\ cfg_log = <<>> /\ sink = <<>> /\ progress = <<>>
    /\ handles = {}
    /\ wip = FALSE /\ wel = FALSE /\ mem = DirtyMem /\ corrupt = {}
    /\ polls = 0
    /\ faults \in {0, MaxFaults}
    /\ \/ /\ prog = "write"
          /\ filename \in SrcFiles
          /\ flash_size \in CliWriteSizes
          /\ chunk_size = 0
          /\ erase_chip \in BOOLEAN
          /\ verify \in BOOLEAN
       \/ /\ prog = "read"
          /\ filename = [exists |-> FALSE, size |-> 0, pat |-> "ramp"]
          /\ flash_size \in CliReadSizes
          /\ chunk_size \in CliChunks
          /\ erase_chip = FALSE
          /\ verify = FALSE

\* spi_flash_read main: if args.size <= 0
SizeRejected(size) == size <= 0

\* spi_flash_read main: if args.chunk <= 0 or args.chunk > 4096
ChunkRejected(chunk) == chunk <= 0 \/ chunk > 4096

\* main: client = BPIOClient(args.port), then the call of the engine; an
\* exception of the constructor is caught and main returns 1
OpenClient ==
    \E opened \in BOOLEAN :
        IF opened
        THEN /\ handles' = handles \cup {"client"}
             /\ pc' = "start"
             /\ UNCHANGED <<ret, msg>>
        ELSE /\ Return("raised", [kind |-> "Exception", addr |-> 0])
             /\ UNCHANGED handles

\* spi_flash_read main
ReadMain ==
    /\ prog = "read" /\ pc = "main"
    /\ IF SizeRejected(flash_size) \/ ChunkRejected(chunk_size)
       THEN /\ Return("rejected", [kind |-> "InvalidArgument", addr |-> 0])
            /\ UNCHANGED handles
       ELSE OpenClient
    /\ UNCHANGED <<argVars, locVars, sink, progress, xfers, cfg_log, devVars, faults, polls>>

\* spi_flash_write main
WriteMain ==
    /\ prog = "write" /\ pc = "main"
    /\ OpenClient
    /\ UNCHANGED <<argVars, locVars, sink, progress, xfers, cfg_log, devVars, faults, polls>>

\* main after the call of the engine: on a result, client.close() and
\* return 0 if success else 1; on an exception of the engine the except
\* branch prints it and returns 1
ClientAfterEngine == IF ret \in {"True", "False"} THEN handles \ {"client"} ELSE handles

MainExit ==
    /\ pc = "done"
    /\ "client" \in handles
    /\ handles' = ClientAfterEngine
    /\ pc' = "exit"
    /\ UNCHANGED <<argVars, locVars, ret, msg, sink, progress, xfers, cfg_log, devVars,
                   faults, polls>>

\* spi_flash_read main, from the return of read_spi_flash
ReadMainExit == prog = "read" /\ MainExit

\* spi_flash_write main, from the return of write_spi_flash
WriteMainExit == prog = "write" /\ MainExit

ReadStep == ReadConfigure \/ ReadChunk \/ ReadExit

NextCli ==
    \/ ReadMain \/ WriteMain \/ WriteStep \/ ReadStep \/ DeviceComplete
    \/ ReadMainExit \/ WriteMainExit

SpecCli == InitCli /\ [][NextCli]_vars

(***************************************************************************)
(* read_spi_flash called directly, with any integer chunk size: the        *)
(* validation of main is not in front of it.                               *)
(***************************************************************************)
EngineChunks == {-256, 0} \cup ChunkSizes

InitEngine ==
    /\ InitCommon
    /\ faults = 0
    /\ prog = "read"
    /\ filename = [exists |-> FALSE, size |-> 0, pat |-> "ramp"]
    /\ flash_size \in ReadSizes
    /\ chunk_size \in EngineChunks
    /\ erase_chip = FALSE
    /\ verify = FALSE

SpecEngine == InitEngine /\ [][ReadStep]_vars
SpecEngineLive == SpecEngine /\ WF_vars(ReadStep)

(***************************************************************************)
(* The command builders on their own, at the addresses the three loops     *)
(* reach on flashes of 16 MB and 32 MB: the read loop steps by chunk_size  *)
(* from 0 while address < flash_size, the write loop by 256 and the        *)
(* verification loop by 512 while address < file_size <= flash_size.       *)
(***************************************************************************)
EncodeSizes == {16777216, 33554432}
EncodeSteps == {0, 1, 2, 255, 256, 257, 4095, 4096, 4097, 8191, 65535, 65536, 65537}

InitEncode ==
    /\ pc = "start"
    /\ page_count = 0 /\ chunk_count = 0 /\ fpos = 0
    /\ page_data = None
    /\ ret = "none" /\ msg = NoMsg
    /\ xfers = <<>> /\ cfg_log = <<>> /\ sink = <<>> /\ progress = <<>>
    /\ handles = {}
    /\ wip = FALSE /\ wel = FALSE /\ mem = DirtyMem /\ corrupt = {}
    /\ polls = 0
    /\ faults = MaxFaults
    /\ prog \in {"read", "write"}
    /\ flash_size \in EncodeSizes
    /\ filename = [exists |-> prog = "write", size |-> IF prog = "write" THEN flash_size ELSE 0,
                   pat |-> "ramp"]
    /\ chunk_size \in (IF prog = "read" THEN {256, 512, 4096} ELSE {0})
    /\ erase_chip = FALSE
    /\ verify = (prog = "write")
    /\ \E k \in EncodeSteps :
         \E step \in (IF prog = "read" THEN {chunk_size} ELSE {page_size, verify_chunk}) :
             /\ k * step < flash_size
             /\ address = k * step

Encoded(cmd, data, n, stage) ==
    /\ pc = "start"
    /\ xfers' = Append(xfers, [cmd |-> cmd, data |-> data, rd |-> n, res |-> "ok",
                               resp |-> None, stage |-> stage, busy |-> FALSE])
    /\ pc' = "done"
    /\ UNCHANGED <<argVars, locVars, outVars, cfg_log, devVars, faults, polls>>

\* read_spi_flash: cmd = [0x03, ...] at the loop's address
EncodeRead ==
    /\ prog = "read" /\ address % chunk_size = 0
    /\ Encoded(ReadCmd(address), None, chunk_size, "read")

\* write_flash: cmd = [0x02, ...] + list(page_data) at the loop's address
EncodeProgram ==
    /\ prog = "write" /\ address % page_size = 0
    /\ Encoded(ProgramCmd(address), FileBytes(filename.pat, address, page_size), 0, "write")

\* write_flash: cmd = [0x03, ...] at the verification loop's address
EncodeVerify ==
    /\ prog = "write" /\ address % verify_chunk = 0
    /\ Encoded(VerifyCmd(address), None, verify_chunk, "verify")

NextEncode == EncodeRead \/ EncodeProgram \/ EncodeVerify

SpecEncode == InitEncode /\ [][NextEncode]_vars

(***************************************************************************)
(* Vocabulary of the properties.                                           *)
(***************************************************************************)
Op(i) == xfers[i].cmd[1]
Idx == 1..Len(xfers)
Failed(i) == xfers[i].res \in {"absent", "short"}
NeverFails == \A i \in Idx : xfers[i].res = "ok"
Done == pc = "done"
Outcome(r, k) == Done /\ ret = r /\ msg.kind = k

(***************************************************************************)
(* C1: a write session whose input file is larger than the flash capacity  *)
(* returns the SizeExceeded failure and never calls spi.configure or       *)
(* spi.transfer, whatever the erase and verify flags are.                  *)
(***************************************************************************)
Oversized == prog = "write" /\ filename.exists /\ file_size > flash_size

C1_SizeExceededNoTransfer ==
    Oversized =>
        /\ xfers = <<>>
        /\ cfg_log = <<>>
        /\ pc \in {"start", "done"}
        /\ Done => ret = "False" /\ msg.kind = "SizeExceeded"

C1_Witness == Oversized /\ Done /\ erase_chip /\ verify /\ file_size = flash_size + 88

(***************************************************************************)
(* C2: when spi.configure returns a falsy result, the read session and the *)
(* write session (erase requested or not) end with the ConfigurationFailed *)
(* failure and no spi.transfer call has been made.                         *)
(***************************************************************************)
ConfigureRefused == Len(cfg_log) >= 1 /\ cfg_log[1] = FALSE

C2_ConfigurationFailedNoTransfer ==
    ConfigureRefused =>
        /\ Outcome("False", "ConfigurationFailed")
        /\ xfers = <<>>
        /\ Len(cfg_log) = 1

C2_Witness == ConfigureRefused /\ prog = "write" /\ erase_chip /\ file_size > 0

(***************************************************************************)
(* C3: with a transport that never fails, the write stage of a file of n   *)
(* bytes issues exactly ceil(n / 256) page programs, the k-th at address   *)
(* 256 * (k - 1) carrying the file's bytes from there (256 of them, or     *)
(* n mod 256 in a last partial page); each page program directly follows a *)
(* write-enable and is followed by status polls only, up to a poll         *)
(* answered ready, before anything else is sent.                           *)
(***************************************************************************)
CeilDiv(n, d) == IF n % d = 0 THEN n \div d ELSE (n \div d) + 1
IsPP(x) == x.cmd[1] = OP_PP
ReadyAnswer(x) ==
    /\ x.cmd = <<OP_RDSR>>
    /\ x.resp.kind = "status" /\ x.resp.len = 1 /\ x.resp.val % 2 = 0
ReadyWaitAfter(i) ==
    \E j \in (i + 1)..Len(xfers) :
        /\ ReadyAnswer(xfers[j])
        /\ \A k \in (i + 1)..j : xfers[k].cmd = <<OP_RDSR>>
        /\ \A k \in (i + 1)..(j - 1) : ~ReadyAnswer(xfers[k])
WriteStageDone ==
    /\ prog = "write"
    /\ pc = "v_head" \/ (Done /\ (ret = "True" \/ msg.kind = "VerificationMismatch"))

C3_PagePrograms ==
    (WriteStageDone /\ NeverFails) =>
        LET pp == SelectSeq(xfers, IsPP)
        IN  /\ Len(pp) = CeilDiv(file_size, 256)
            /\ \A k \in 1..Len(pp) :
                 /\ pp[k].cmd = <<OP_PP, 0, k - 1, 0>>
                 /\ pp[k].data = FileBytes(filename.pat, 256 * (k - 1),
                                           IF 256 * k <= file_size THEN 256
                                           ELSE file_size % 256)
            /\ \A i \in Idx :
                 Op(i) = OP_PP =>
                     /\ i > 1 /\ xfers[i - 1].cmd = <<OP_WREN>>
                     /\ xfers[i - 1].stage = "write"
                     /\ ReadyWaitAfter(i)

C3_Witness ==
    /\ WriteStageDone /\ NeverFails
    /\ file_size = 600
    /\ Len(SelectSeq(xfers, IsPP)) = 3
    /\ \E i \in Idx : xfers[i].stage = "write" /\ Op(i) = OP_RDSR /\ ~ReadyAnswer(xfers[i])

(***************************************************************************)
(* C4: when the flash size is k chunks (k >= 1) and no transfer fails, a   *)
(* read session issues exactly k read commands, the i-th at address        *)
(* (i - 1) * chunk_size and requesting chunk_size bytes, leaves exactly    *)
(* the flash_size bytes of the device in the output file in address order, *)
(* and returns True.                                                       *)
(***************************************************************************)
RECURSIVE Flat(_)
Flat(chunks) ==
    IF chunks = <<>> THEN <<>>
    ELSE Flat(SubSeq(chunks, 1, Len(chunks) - 1))
         \o [k \in 1..chunks[Len(chunks)].len |-> At(chunks[Len(chunks)], k - 1)]
SinkBytes == Flat(sink)

ReadRan == prog = "read" /\ Done /\ cfg_log = <<TRUE>>

C4_ReadAllWholeChunks ==
    (ReadRan /\ NeverFails /\ flash_size % chunk_size = 0) =>
        /\ ret = "True" /\ msg = NoMsg
        /\ Len(xfers) = flash_size \div chunk_size
        /\ \A i \in Idx :
             /\ Op(i) = OP_READ /\ Len(xfers[i].cmd) = 4
             /\ DecodeAddr(xfers[i].cmd) = (i - 1) * chunk_size
             /\ xfers[i].rd = chunk_size
        /\ SinkBytes = [a \in 1..flash_size |-> MemByte(mem, corrupt, a - 1)]

C4_Witness ==
    /\ ReadRan /\ NeverFails /\ ret = "True"
    /\ flash_size = 4096 /\ chunk_size = 512 /\ Len(xfers) = 8

(***************************************************************************)
(* C5: when the j-th transfer of a read session returns None or an answer  *)
(* of the wrong length, the session returns False with the read error at   *)
(* address (j - 1) * chunk_size, the output file holds exactly the j - 1   *)
(* chunks read before, and the failed transfer is the session's last.      *)
(***************************************************************************)
C5_ReadFailStop ==
    prog = "read" =>
        \A j \in Idx :
            Failed(j) =>
                /\ j = Len(xfers)
                /\ Outcome("False", "TransportError")
                /\ msg.addr = (j - 1) * chunk_size
                /\ Len(sink) = j - 1
                /\ \A k \in 1..(j - 1) : sink[k] = xfers[k].resp /\ sink[k].len = chunk_size

C5_Witness ==
    /\ prog = "read" /\ flash_size = 4096 /\ chunk_size = 512
    /\ Len(xfers) = 2 /\ Failed(2)
    /\ Done /\ msg.addr = 512 /\ Len(sink) = 1

(***************************************************************************)
(* C6: round trip.  On a transport that never fails and a device that      *)
(* returns what was programmed, a write session that returned True         *)
(* followed by a read session over as many bytes as the input file holds   *)
(* leaves exactly the input file's bytes in the output file.               *)
(***************************************************************************)
SourceBytes == [a \in 1..file_size |-> SrcByte(filename.pat, a - 1)]

C6_RoundTrip ==
    (prog = "read" /\ Done /\ ret = "True") => SinkBytes = SourceBytes

C6_Witness ==
    /\ prog = "read" /\ Done /\ ret = "True"
    /\ file_size = 600 /\ filename.pat = "ramp" /\ chunk_size = 8
    /\ Len(SinkBytes) = 600

(***************************************************************************)
(* C7: when the verification stage ran without a failed transfer: if the   *)
(* flash equals the input file on [0, file_size), the session returns      *)
(* True; if it differs from it in exactly one byte, at address A, the      *)
(* session returns False with a verification failure at the start of the   *)
(* 512-byte verification chunk that contains A.                            *)
(***************************************************************************)
VerifyRan ==
    /\ prog = "write" /\ Done /\ verify
    /\ ret = "True" \/ msg.kind = "VerificationMismatch"
    /\ \A i \in Idx : xfers[i].stage = "verify" => ~Failed(i)
Diff == {a \in 0..(file_size - 1) : MemByte(mem, corrupt, a) # SrcByte(filename.pat, a)}

C7_VerifyDetectsCorruption ==
    VerifyRan =>
        LET d == Diff
        IN  /\ d = {} => ret = "True" /\ msg = NoMsg
            /\ Cardinality(d) = 1 =>
                 LET A == CHOOSE a \in d : TRUE
                 IN  /\ ret = "False"
                     /\ msg = [kind |-> "VerificationMismatch", addr |-> (A \div 512) * 512]

C7_Witness ==
    /\ VerifyRan /\ file_size = 600
    /\ corrupt = {599} /\ Diff = {599}
    /\ ret = "False" /\ msg.addr = 512

(***************************************************************************)
(* C8: a status poll of a busy-wait that the transport answers with None   *)
(* ends the wait with a failure: it is the session's last transfer and the *)
(* session has returned False.                                             *)
(***************************************************************************)
C8_BusyWaitFailsOnAbsent ==
    \A i \in Idx :
        (Op(i) = OP_RDSR /\ xfers[i].res = "absent") =>
            (i = Len(xfers) /\ Done /\ ret = "False")

(***************************************************************************)
(* C9: a write-enable or page-program transfer of the write stage that the *)
(* transport fails aborts the write: it is the session's last transfer and *)
(* the session has returned False with a transport error at the address    *)
(* of that page.                                                           *)
(***************************************************************************)
C9_WriteAbortsOnFailure ==
    \A i \in Idx :
        (xfers[i].stage = "write" /\ Op(i) \in {OP_WREN, OP_PP} /\ Failed(i)) =>
            /\ i = Len(xfers)
            /\ Outcome("False", "TransportError")
            /\ msg.addr = address

(***************************************************************************)
(* C10: a failed transfer of the erase stage is followed by no page        *)
(* program, and a failed transfer of the write stage is followed by no     *)
(* verification read.                                                      *)
(***************************************************************************)
C10_FailedStageAborts ==
    \A i \in Idx : \A j \in Idx :
        (i < j /\ Failed(i)) =>
            /\ ~(xfers[i].stage = "erase" /\ Op(j) = OP_PP)
            /\ ~(xfers[i].stage = "write" /\ xfers[j].stage = "verify")

(***************************************************************************)
(* C11: the transfers of a write session come in the order erase stage,    *)
(* write stage, verification stage, all after a successful configure.      *)
(* When chip erase is requested the write stage's first transfer directly  *)
(* follows an erase-stage status poll whose answer had the WIP bit clear;  *)
(* the first verification read directly follows a write-stage poll         *)
(* answered ready, and every page program before it has its ready-wait     *)
(* finished.                                                               *)
(***************************************************************************)
StageRank(st) ==
    CASE st = "erase" -> 1 [] st = "write" -> 2 [] st = "verify" -> 3 [] OTHER -> 0

C11_StageOrder ==
    prog = "write" =>
        /\ xfers # <<>> => cfg_log = <<TRUE>>
        /\ (xfers # <<>> /\ erase_chip) => xfers[1].stage = "erase"
        /\ \A i \in Idx :
             /\ i > 1 => StageRank(xfers[i - 1].stage) <= StageRank(xfers[i].stage)
             /\ (i > 1 /\ xfers[i - 1].stage = "erase" /\ xfers[i].stage = "write") =>
                    ReadyAnswer(xfers[i - 1])
             /\ (xfers[i].stage = "verify" /\ (i = 1 \/ xfers[i - 1].stage # "verify")) =>
                    /\ i > 1 /\ xfers[i - 1].stage = "write" /\ ReadyAnswer(xfers[i - 1])
                    /\ \A p \in 1..(i - 1) : Op(p) = OP_PP => ReadyWaitAfter(p)

C11_Witness ==
    /\ prog = "write" /\ erase_chip /\ verify /\ file_size = 600
    /\ Done /\ ret = "True"
    /\ \E i \in Idx : xfers[i].stage = "erase" /\ Op(i) = OP_RDSR /\ ~ReadyAnswer(xfers[i])
    /\ \E i \in Idx : xfers[i].stage = "verify"

(***************************************************************************)
(* C12: every read command of a read session, at address a, requests       *)
(* min(chunk_size, flash_size - a) bytes, and a session that returned True *)
(* has written exactly flash_size bytes and stopped at address flash_size. *)
(***************************************************************************)
RECURSIVE SumLen(_)
SumLen(chunks) ==
    IF chunks = <<>> THEN 0
    ELSE chunks[Len(chunks)].len + SumLen(SubSeq(chunks, 1, Len(chunks) - 1))

C12_ReadClampsLastChunk ==
    prog = "read" =>
        /\ \A i \in Idx :
             xfers[i].rd = Min(chunk_size, flash_size - DecodeAddr(xfers[i].cmd))
        /\ (Done /\ ret = "True") => (SumLen(sink) = flash_size /\ address = flash_size)

(***************************************************************************)
(* C13: a file is held open exactly while the session is inside the with   *)
(* block that opened it (the write loop, the verification loop, the read   *)
(* loop); once the session has returned or an exception has left it, by    *)
(* any path, no file is open.                                              *)
(***************************************************************************)
C13_HandlesReleased ==
    /\ Done => handles = {}
    /\ handles = CASE pc \in {"w_head", "w_prog", "w_poll"} -> {"write_f"}
                   [] pc = "v_head" -> {"verify_f"}
                   [] pc = "r_head" -> {"read_f"}
                   [] OTHER -> {}

C13_Witness ==
    /\ Done /\ ret = "raised" /\ handles = {}
    /\ prog = "write" /\ xfers # <<>> /\ xfers[Len(xfers)].stage = "verify"
    /\ Len(xfers) > 1

(***************************************************************************)
(* C14: a write session without chip erase never sends the chip-erase      *)
(* command (0xC7) nor any other erase-stage transfer; a write session      *)
(* without verification never sends a read command (0x03), and when it has *)
(* returned after a successful configure it returned True, its last        *)
(* transfer being the ready answer of the last page's wait.                *)
(***************************************************************************)
C14_OptionalStages ==
    prog = "write" =>
        /\ ~erase_chip => \A i \in Idx : Op(i) # OP_CE /\ xfers[i].stage # "erase"
        /\ ~verify =>
             /\ \A i \in Idx : Op(i) # OP_READ /\ xfers[i].stage # "verify"
             /\ pc # "v_head"
             /\ (Done /\ cfg_log = <<TRUE>> /\ ret # "raised") =>
                    /\ ret = "True" /\ msg = NoMsg
                    /\ file_size > 0 =>
                         /\ xfers # <<>>
                         /\ xfers[Len(xfers)].stage = "write"
                         /\ ReadyAnswer(xfers[Len(xfers)])

C14_Witness ==
    /\ prog = "write" /\ ~erase_chip /\ ~verify /\ file_size = 600
    /\ Done /\ ret = "True"
    /\ Len(SelectSeq(xfers, IsPP)) = 3

(***************************************************************************)
(* C15: a write session returns True only if no stage reported a failure:  *)
(* the file exists and fits, spi.configure succeeded, and every chunk the  *)
(* verification stage read equals the input file.  A session that ended    *)
(* with any failure message, in particular a verification mismatch after   *)
(* every page was programmed, has not returned True and its exit code is 1.*)
(***************************************************************************)
StageFailed == Done /\ msg.kind # "none"

C15_NoDowngrade ==
    prog = "write" =>
        /\ ret = "True" =>
             /\ msg = NoMsg /\ ExitCode = 0
             /\ filename.exists /\ ~Oversized /\ cfg_log = <<TRUE>>
             /\ \A i \in Idx :
                  xfers[i].stage = "verify" =>
                      BytesEq(xfers[i].resp,
                              FileBytes(filename.pat, DecodeAddr(xfers[i].cmd), xfers[i].rd))
        /\ StageFailed => ret # "True" /\ ExitCode = 1
        /\ Outcome("False", "VerificationMismatch") =>
             Len(SelectSeq(xfers, IsPP)) = CeilDiv(file_size, page_size)

C15_Witness ==
    /\ prog = "write" /\ file_size = 600
    /\ Outcome("False", "VerificationMismatch") /\ ExitCode = 1
    /\ Len(SelectSeq(xfers, IsPP)) = 3
    /\ \A i \in Idx : Op(i) = OP_PP => xfers[i].res = "ok" /\ ReadyWaitAfter(i)
    /\ xfers[Len(xfers)].res = "ok"

(***************************************************************************)
(* C16: a verification read at address a that the transport answers with   *)
(* None ends the session with the TransportError failure at a, and the     *)
(* VerificationMismatch failure is reported only when the last read        *)
(* returned bytes.                                                         *)
(***************************************************************************)
C16_VerifyAbsentIsTransportError ==
    prog = "write" =>
        /\ \A i \in Idx :
             (xfers[i].stage = "verify" /\ xfers[i].res = "absent") =>
                 /\ Outcome("False", "TransportError")
                 /\ msg.addr = DecodeAddr(xfers[i].cmd)
        /\ Outcome("False", "VerificationMismatch") =>
             /\ xfers # <<>>
             /\ xfers[Len(xfers)].resp.kind # "none"

(***************************************************************************)
(* C17: verification stops at the first unequal chunk.  The latest         *)
(* verification read has an answer that differs from the input file        *)
(* exactly when the session has returned the verification failure, which   *)
(* then names that read's address, every earlier verification read having  *)
(* compared equal; a verification read that is followed by another         *)
(* transfer was answered in full and is followed by a verification read.   *)
(* When no verification transfer failed, the reported address is the start *)
(* of the lowest 512-byte chunk in which the flash differs from the input  *)
(* file.                                                                   *)
(***************************************************************************)
ComparedEqual(x) ==
    BytesEq(x.resp, FileBytes(filename.pat, DecodeAddr(x.cmd), x.rd))

C17_VerifyShortCircuits ==
    prog = "write" =>
        /\ \A i \in 1..(Len(xfers) - 1) :
             xfers[i].stage = "verify" =>
                 xfers[i].res = "ok" /\ xfers[i + 1].stage = "verify"
        /\ (xfers # <<>> /\ xfers[Len(xfers)].stage = "verify"
                         /\ xfers[Len(xfers)].res # "raise") =>
             LET x == xfers[Len(xfers)]
             IN  /\ (~ComparedEqual(x)) = Outcome("False", "VerificationMismatch")
                 /\ Outcome("False", "VerificationMismatch") =>
                      /\ msg.addr = DecodeAddr(x.cmd)
                      /\ \A k \in 1..(Len(xfers) - 1) :
                           xfers[k].stage = "verify" => ComparedEqual(xfers[k])
        /\ (VerifyRan /\ ret = "False") =>
             /\ msg.kind = "VerificationMismatch"
             /\ msg.addr % verify_chunk = 0
             /\ \A a \in 0..(msg.addr - 1) :
                  MemByte(mem, corrupt, a) = SrcByte(filename.pat, a)
             /\ \E a \in msg.addr..(Min(msg.addr + verify_chunk, file_size) - 1) :
                  MemByte(mem, corrupt, a) # SrcByte(filename.pat, a)

C17_Witness ==
    /\ VerifyRan /\ file_size = 600
    /\ Outcome("False", "VerificationMismatch") /\ msg.addr = 0
    /\ Cardinality(Diff) > 1 /\ \A a \in Diff : a >= 256
    /\ Len(SelectSeq(xfers, LAMBDA x : x.stage = "verify")) = 1

(***************************************************************************)
(* C18: verification is a fresh pass over the input file from offset 0.    *)
(* The k-th verification read is the read command at address 512 * (k - 1) *)
(* and requests min(512, file_size - address) bytes, whatever the page     *)
(* size of the write stage; between reads the file position equals the     *)
(* flash address; and a session that verified and returned True has read   *)
(* ceil(file_size / 512) chunks, each equal to the input file's bytes at   *)
(* its address, their lengths adding up to file_size.                      *)
(***************************************************************************)
IsVerifyRead(x) == x.stage = "verify"

RECURSIVE SumRd(_)
SumRd(s) == IF s = <<>> THEN 0 ELSE s[Len(s)].rd + SumRd(SubSeq(s, 1, Len(s) - 1))

C18_VerifyFreshPass ==
    prog = "write" =>
        LET vs == SelectSeq(xfers, IsVerifyRead)
        IN  /\ \A k \in 1..Len(vs) :
                 /\ vs[k].cmd = <<OP_READ, 0, 2 * (k - 1), 0>>
                 /\ DecodeAddr(vs[k].cmd) = 512 * (k - 1)
                 /\ vs[k].rd = Min(512, file_size - 512 * (k - 1))
                 /\ vs[k].rd > 0
            /\ pc = "v_head" =>
                 /\ fpos = address
                 /\ address = SumRd(vs)
            /\ (Done /\ verify /\ ret = "True") =>
                 /\ Len(vs) = CeilDiv(file_size, 512)
                 /\ SumRd(vs) = file_size
                 /\ \A k \in 1..Len(vs) : ComparedEqual(vs[k])

C18_Witness ==
    /\ prog = "write" /\ Done /\ verify /\ ret = "True" /\ file_size = 600
    /\ LET vs == SelectSeq(xfers, IsVerifyRead)
       IN  Len(vs) = 2 /\ vs[1].rd = 512 /\ vs[2].rd = 88
    /\ Len(SelectSeq(xfers, IsPP)) = 3

(***************************************************************************)
(* C19: the device is idle at the start of the session and is busy only    *)
(* while a chip erase or a page program is in progress; every chip-erase   *)
(* and every page-program command of a write session is sent while the     *)
(* device's WIP bit is clear, however long the device takes and however    *)
(* the status polls are answered (busy, None, wrong length).               *)
(***************************************************************************)
C19_CommandsSentWhenIdle ==
    prog = "write" =>
        /\ \A i \in Idx : Op(i) \in {OP_CE, OP_PP} => ~xfers[i].busy
        /\ pc \in {"erase_wren", "erase_ce", "w_head", "w_prog"} => ~wip

C19_Witness ==
    /\ prog = "write"
    /\ \E i \in Idx :
         /\ Op(i) = OP_PP /\ ~xfers[i].busy /\ xfers[i].res = "ok"
         /\ \E j \in 1..(i - 1) :
              /\ Op(j) = OP_RDSR /\ xfers[j].busy
              /\ xfers[j].resp.kind = "status" /\ xfers[j].resp.val % 2 = 1
         /\ \E k \in 1..(i - 1) : Op(k) = OP_RDSR /\ Failed(k) /\ xfers[k].busy
         /\ \E c \in 1..(i - 1) : Op(c) = OP_CE /\ xfers[c].res = "ok"

(***************************************************************************)
(* C20: a busy-wait ends exactly on a 1-byte status answer with bit 0      *)
(* clear and polls again after any other answer (busy, None, wrong         *)
(* length); there is no other way out of the loop than an exception.  When *)
(* the device eventually finishes each erase and program, every busy-wait  *)
(* is eventually left and the write session eventually returns.            *)
(***************************************************************************)
InWait == pc \in {"erase_poll", "w_poll"}

WaitStepExact ==
    (InWait /\ xfers' # xfers) =>
        LET x == xfers'[Len(xfers')]
        IN  /\ x.cmd = <<OP_RDSR>> /\ x.rd = 1
            /\ x.res = "raise" => pc' = "done" /\ ret' = "raised"
            /\ x.res # "raise" =>
                 /\ ReadyAnswer(x) => pc' = "w_head"
                 /\ ~ReadyAnswer(x) => pc' = pc /\ ret' = "none"

C20_BusyWaitTerminates ==
    /\ [][WaitStepExact]_vars
    /\ InWait ~> ~InWait
    /\ <>Done

C20_Witness ==
    /\ prog = "write" /\ Done /\ ret = "True" /\ erase_chip /\ file_size = 600
    /\ \E i \in Idx : Op(i) = OP_RDSR /\ xfers[i].busy /\ ~ReadyAnswer(xfers[i])
    /\ \E i \in Idx : Op(i) = OP_RDSR /\ xfers[i].res = "absent"
    /\ Len(SelectSeq(xfers, ReadyAnswer)) = 4

(***************************************************************************)
(* C21 as claimed: every session that has returned called spi.configure    *)
(* exactly once.                                                           *)
(***************************************************************************)
C21_ConfigureExactlyOnce ==
    (Done /\ ret # "raised") => Len(cfg_log) = 1

(***************************************************************************)
(* C21: spi.configure is called at most once in a session, and exactly     *)
(* once in every read session and in every write session whose input file  *)
(* exists and fits the flash (a write session rejected before that never   *)
(* calls it); it is called before the first transfer, and a transfer is    *)
(* issued only after spi.configure returned a truthy result.               *)
(***************************************************************************)
PreflightRejected ==
    prog = "write" /\ (~filename.exists \/ file_size > flash_size)

C21_ConfigureOnceBeforeTransfers ==
    /\ Len(cfg_log) <= 1
    /\ xfers # <<>> => cfg_log = <<TRUE>>
    /\ pc \notin {"start", "configure", "done"} => cfg_log = <<TRUE>>
    /\ Done => Len(cfg_log) = (IF PreflightRejected THEN 0 ELSE 1)
    /\ (Done /\ cfg_log = <<FALSE>>) => ret = "False"

C21_Witness ==
    /\ Done /\ cfg_log = <<TRUE>> /\ Len(xfers) >= 2
    /\ prog = "write" /\ ~erase_chip /\ ret = "True"

(***************************************************************************)
(* C22: the transfers of the chip-erase stage are the first transfers of   *)
(* the session and are, in this order: one write enable (the byte 0x06,    *)
(* nothing read), one chip erase (the byte 0xC7, nothing read), then       *)
(* status reads only (the byte 0x05, one byte read), at least one of them  *)
(* and the last one answered ready once the stage is left.  A chip erase   *)
(* is sent at most once in a session, as its second transfer, right after  *)
(* the write enable, and exactly once when the stage has been left.        *)
(***************************************************************************)
IsEraseStage(x) == x.stage = "erase"

EraseStageLeft ==
    /\ prog = "write" /\ erase_chip
    /\ pc \in {"w_head", "w_prog", "w_poll", "v_head"}
       \/ (Done /\ ret \in {"True", "False"} /\ cfg_log = <<TRUE>>)

C22_EraseSequence ==
    prog = "write" =>
        LET es == SelectSeq(xfers, IsEraseStage)
        IN  /\ \A k \in 1..Len(es) :
                 /\ xfers[k] = es[k]
                 /\ es[k].data = None
                 /\ k = 1 => es[k].cmd = <<6>> /\ es[k].rd = 0
                 /\ k = 2 => es[k].cmd = <<199>> /\ es[k].rd = 0
                 /\ k >= 3 => es[k].cmd = <<5>> /\ es[k].rd = 1
            /\ \A i \in Idx : xfers[i].cmd[1] = 199 => i = 2 /\ xfers[1].cmd = <<6>>
            /\ EraseStageLeft =>
                 /\ Len(es) >= 3
                 /\ ReadyAnswer(es[Len(es)])
                 /\ \A k \in 3..(Len(es) - 1) : ~ReadyAnswer(es[k])
                 /\ Len(SelectSeq(xfers, LAMBDA x : x.cmd = <<199>>)) = 1

C22_Witness ==
    /\ EraseStageLeft /\ Done /\ ret = "True" /\ file_size = 600
    /\ Len(SelectSeq(xfers, IsEraseStage)) = 4
    /\ xfers[2].cmd = <<199>> /\ xfers[3].cmd = <<5>> /\ ~ReadyAnswer(xfers[3])

(***************************************************************************)
(* C23: every page program of the write stage carries between 1 and 256    *)
(* bytes at an address that is a multiple of 256, so it stays within one   *)
(* page; and throughout the write loop the current address equals the      *)
(* number of input-file bytes carried by the page programs whose wait has  *)
(* ended, which is also where the next page program is addressed.          *)
(***************************************************************************)
RECURSIVE Programmed(_)
Programmed(n) ==
    IF n = 0 THEN 0
    ELSE Programmed(n - 1)
         + (IF xfers[n].cmd[1] = 2 /\ ReadyWaitAfter(n) THEN xfers[n].data.len ELSE 0)

InWriteLoop == prog = "write" /\ pc \in {"w_head", "w_prog", "w_poll"}

C23_PageProgramsStayInPage ==
    prog = "write" =>
        /\ \A i \in Idx :
             xfers[i].cmd[1] = 2 =>
                 LET a == DecodeAddr(xfers[i].cmd)
                 IN  /\ xfers[i].data.len >= 1 /\ xfers[i].data.len <= 256
                     /\ a % 256 = 0
                     /\ (a + xfers[i].data.len - 1) \div 256 = a \div 256
                     /\ a = Programmed(i - 1)
                     /\ xfers[i].data = FileBytes(filename.pat, a, xfers[i].data.len)
        /\ InWriteLoop =>
             /\ address = Programmed(Len(xfers))
             /\ address % 256 = 0 \/ address = file_size
             /\ address <= file_size
             /\ pc = "w_head" => fpos = address

C23_Witness ==
    /\ InWriteLoop /\ pc = "w_head" /\ file_size = 600 /\ address = 600
    /\ Programmed(Len(xfers)) = 600
    /\ \E i \in Idx : xfers[i].cmd[1] = 2 /\ xfers[i].data.len = 88
                      /\ DecodeAddr(xfers[i].cmd) = 512

(***************************************************************************)
(* C24: a command with an address is the opcode followed by the address as *)
(* three bytes, most significant first: the read of the read loop and of   *)
(* the verification loop at address a is [0x03, (a >> 16) mod 256,         *)
(* (a >> 8) mod 256, a mod 256], the page program at a is 0x02 and the     *)
(* same three bytes, followed by the page's data.                          *)
(***************************************************************************)
C24_AddressedCommandLayout ==
    \A i \in Idx :
        LET x == xfers[i]
            a == address
        IN  /\ Len(x.cmd) = 4
            /\ x.cmd[1] = (IF x.stage = "write" THEN 2 ELSE 3)
            /\ x.cmd[2] = (a \div 65536) % 256
            /\ x.cmd[3] = (a \div 256) % 256
            /\ x.cmd[4] = a % 256
            /\ \A b \in 2..4 : x.cmd[b] \in 0..255
            /\ x.cmd[2] * 65536 + x.cmd[3] * 256 + x.cmd[4] = a % 16777216
            /\ x.stage = "write" => x.data = FileBytes(filename.pat, a, 256)
            /\ x.stage # "write" => x.data = None

C24_Witness ==
    /\ Done /\ prog = "write" /\ address = 257 * 256
    /\ xfers # <<>> /\ xfers[1].cmd = <<2, 1, 1, 0>>

(***************************************************************************)
(* C25: in a read session show_progress is called after the first chunk,   *)
(* after every 256th chunk and after the final chunk of the read, and      *)
(* after no other chunk; a read that returned True has reported its final  *)
(* chunk.                                                                  *)
(***************************************************************************)
ReportedAfterChunk(n) ==
    \E e \in 1..Len(progress) :
        progress[e].op = "Reading" /\ progress[e].cur = n * chunk_size

C25_ReadProgressCadence ==
    prog = "read" =>
        /\ \A n \in 1..chunk_count :
             ReportedAfterChunk(n) <=>
                 (n = 1 \/ n % 256 = 0 \/ n = CeilDiv(flash_size, chunk_size))
        /\ (Done /\ ret = "True") => ReportedAfterChunk(chunk_count)

(***************************************************************************)
(* C26: within the read loop, the write stage or the verification stage of *)
(* a session, each call of show_progress passes a number of bytes done     *)
(* strictly greater than the call before it, and the same total: the flash *)
(* size when reading, the size of the input file when writing and          *)
(* verifying.                                                              *)
(***************************************************************************)
C26_ProgressMonotonic ==
    \A i \in 1..Len(progress) :
        /\ progress[i].tot = (IF progress[i].op = "Reading" THEN flash_size ELSE file_size)
        /\ \A j \in (i + 1)..Len(progress) :
             progress[i].op = progress[j].op =>
                 /\ progress[i].cur < progress[j].cur
                 /\ progress[i].tot = progress[j].tot

C26_Witness ==
    /\ prog = "write" /\ file_size = 600 /\ Done /\ ret = "True"
    /\ Len(progress) = 3
    /\ progress[1] = [cur |-> 256, tot |-> 600, op |-> "Writing"]
    /\ progress[2] = [cur |-> 600, tot |-> 600, op |-> "Writing"]
    /\ progress[3].op = "Verifying"

(***************************************************************************)
(* C27: neither tool opens the client or calls its engine with a flash     *)
(* size that is not positive, the read tool never with a chunk size        *)
(* outside 1..4096; a run with such an argument ends rejected, with exit   *)
(* code 1.                                                                 *)
(***************************************************************************)
ArgumentsValid ==
    /\ flash_size > 0
    /\ prog = "read" => chunk_size \in 1..4096

EngineReached ==
    "client" \in handles \/ cfg_log # <<>> \/ pc \notin {"main", "done"}

C27_ArgumentsValidated ==
    /\ EngineReached => ArgumentsValid
    /\ (Done /\ ~ArgumentsValid) => ret = "rejected" /\ ExitCode = 1

(***************************************************************************)
(* C28: every call of show_progress, from the read loop, the write stage   *)
(* or the verification stage, passes 0 < current <= total, so the fraction *)
(* current / total is in (0, 1] and total is never 0.                      *)
(***************************************************************************)
C28_ProgressWithinTotal ==
    \A i \in 1..Len(progress) :
        /\ progress[i].tot > 0
        /\ 0 < progress[i].cur
        /\ progress[i].cur <= progress[i].tot

(***************************************************************************)
(* C29: in a read session, at the head of every loop iteration and at      *)
(* every exit of the loop (True, or False after a failed transfer), the    *)
(* number of bytes written to the output file equals the current address,  *)
(* and the address does not exceed the flash size.                         *)
(***************************************************************************)
C29_SinkMatchesAddress ==
    (prog = "read" /\ (pc = "r_head" \/ (Done /\ cfg_log = <<TRUE>>))) =>
        /\ SumLen(sink) = address
        /\ address <= flash_size

(***************************************************************************)
(* C30: every address a loop places in a command is below 2^24, so that    *)
(* the three address bytes of the command give the address back, on every  *)
(* flash size the tools accept (32 MB among them).                         *)
(***************************************************************************)
C30_AddressFitsThreeBytes ==
    \A i \in Idx :
        /\ address < 16777216
        /\ DecodeAddr(xfers[i].cmd) = address

(***************************************************************************)
(* C31: read_spi_flash terminates for every transport behaviour and every  *)
(* integer chunk size.  Every iteration of the loop advances the address   *)
(* by the chunk size, which is positive, or leaves the function (False, or *)
(* the exception of the transport), so a session makes at most             *)
(* ceil(flash_size / chunk_size) transfers; with a chunk size <= 0 the     *)
(* first iteration makes its transfer and ends the session with a failure. *)
(***************************************************************************)
ReadIteration ==
    pc = "r_head" /\ address < flash_size /\ Len(xfers') = Len(xfers) + 1

\* the parts of C31 that hold under SpecEngine and, with weak fairness of the
\* engine's steps, under SpecEngineLive: an iteration advances or leaves, and
\* every session ends
C31_IterationAdvancesOrLeaves ==
    [][ReadIteration =>
          \/ chunk_size > 0 /\ address' = address + chunk_size /\ pc' = "r_head"
          \/ pc' = "done" /\ ret' \in {"False", "raised"}]_vars

C31_Terminates == <>Done

C32_ClientClosedOnExit ==
    pc = "exit" => "client" \notin handles

====
